---- MODULE Spec2Model ----
(***************************************************************************)
(* The intent-resolution core of the RealtyPlus FAQ bot (src/main.py):     *)
(* language detection, AI classification with its fallback rules, the     *)
(* keyword ranker, and the per-user disambiguation state machine of        *)
(* handle_message, run by a single asyncio event loop.                     *)
(*                                                                         *)
(* Text is modelled as TLA+ strings, character by character (Len, SubSeq,  *)
(* \o).  The source file holds its accented words as two-character         *)
(* sequences (U+00C3 or U+00C2 followed by a symbol); each non-ASCII       *)
(* character of the source is written here as one ASCII stand-in:          *)
(*   U+00C3 "^" (its lower case U+00E3 "~"), U+00C2 "{" (lower U+00E2 "}"),*)
(*   U+00A9 "%", U+00B3 "#", U+00A1 "!", U+00AD "$", U+00BF "&", U+00BA "=" *)
(***************************************************************************)
EXTENDS Integers, Sequences, FiniteSets, TLC

VARIABLES
  RESPONSES,       \* data.json as loaded at import: category -> canned text
  GEMINI_API_KEY,  \* whether the AI credential is configured
  user_data,       \* context.user_data of every user
  blocked,         \* the synchronous generate_content call the event loop is inside
  turn,            \* the update being (or last) handled, with what the handler did
  applied          \* the function last applied on its own, with its arguments and result

vars == <<RESPONSES, GEMINI_API_KEY, user_data, blocked, turn, applied>>

-----------------------------------------------------------------------------
(* Python string operations *)

UpperLetters == "ABCDEFGHIJKLMNOPQRSTUVWXYZ^{"
LowerLetters == "abcdefghijklmnopqrstuvwxyz~}"
Whitespace == " \t\n\r\f"
Digits == "0123456789"

Char(s, i) == SubSeq(s, i, i)

\* x in s, for a one-character x
HasChar(s, c) == \E i \in 1..Len(s) : Char(s, i) = c

IndexOf(s, c) == CHOOSE i \in 1..Len(s) : Char(s, i) = c

\* substring in text
Contains(text, substring) ==
  \E i \in 1..(Len(text) - Len(substring) + 1) :
     SubSeq(text, i, i + Len(substring) - 1) = substring

RECURSIVE MapChars(_, _, _)
MapChars(s, from, to) ==
  IF s = "" THEN ""
  ELSE LET c == Char(s, 1)
           d == IF HasChar(from, c) THEN Char(to, IndexOf(from, c)) ELSE c
       IN  d \o MapChars(SubSeq(s, 2, Len(s)), from, to)

\* str.lower()
lower(s) == MapChars(s, UpperLetters, LowerLetters)

\* str.upper()
upper(s) == MapChars(s, LowerLetters, UpperLetters)

\* str.strip()
strip(s) ==
  LET keep == {i \in 1..Len(s) : ~HasChar(Whitespace, Char(s, i))}
  IN  IF keep = {} THEN ""
      ELSE SubSeq(s, CHOOSE i \in keep : \A j \in keep : i <= j,
                     CHOOSE i \in keep : \A j \in keep : i >= j)

\* the decimal value of a run of digits and underscores
RECURSIVE DigitsValue(_, _)
DigitsValue(s, acc) ==
  IF s = "" THEN acc
  ELSE IF Char(s, 1) = "_" THEN DigitsValue(SubSeq(s, 2, Len(s)), acc)
  ELSE DigitsValue(SubSeq(s, 2, Len(s)), 10 * acc + IndexOf(Digits, Char(s, 1)) - 1)

\* int(text): surrounding whitespace, one optional sign, then decimal digits that
\* single underscores may separate; anything else raises ValueError (ok = FALSE)
int(text) ==
  LET s == strip(text)
      signed == s # "" /\ Char(s, 1) \in {"+", "-"}
      body == IF signed THEN SubSeq(s, 2, Len(s)) ELSE s
      wellFormed ==
        /\ body # ""
        /\ \A i \in 1..Len(body) :
             \/ HasChar(Digits, Char(body, i))
             \/ /\ Char(body, i) = "_"
                /\ 1 < i /\ i < Len(body)
                /\ HasChar(Digits, Char(body, i - 1))
                /\ HasChar(Digits, Char(body, i + 1))
      magnitude == DigitsValue(body, 0)
  IN  IF ~wellFormed THEN [ok |-> FALSE, value |-> 0]
      ELSE [ok |-> TRUE,
            value |-> IF signed /\ Char(s, 1) = "-" THEN 0 - magnitude ELSE magnitude]

\* str(n) for the small naturals the handler formats
str(n) == IF n < 10 THEN Char(Digits, n + 1)
          ELSE Char(Digits, (n \div 10) + 1) \o Char(Digits, (n % 10) + 1)

\* list[i]: Python counts from 0, and a negative index counts from the end
item(list, i) == IF i >= 0 THEN list[i + 1] ELSE list[Len(list) + i + 1]

\* dict operations on context.user_data
NoKeys == [k \in {} |-> FALSE]
Has(d, k) == k \in DOMAIN d
Put(d, k, v) == [x \in (DOMAIN d) \cup {k} |-> IF x = k THEN v ELSE d[x]]
Get(d, k, default) == IF k \in DOMAIN d THEN d[k] ELSE default

-----------------------------------------------------------------------------
(* The tables of the source *)

\* main.py 46-52
spanish_indicators ==
  <<
    "qu^%", "c^#mo", "cu^!ndo", "d^#nde", "por qu^%", "cu^!l", "cu^!les", "puedo",
    "necesito", "quiero", "ayuda", "informaci^#n", "pa^$ses", "incluye", "recibo", "apoyo",
    "empezar", "contactar", "hola", "gracias", "favor", "m^!s", "s^$", "no", "bueno",
    "tambi^%n", "esto", "eso", "aqu^$", "all^$", "ahora", "despu^%s"
  >>

\* main.py 55-59
english_indicators ==
  <<
    "what", "how", "when", "where", "why", "which", "who", "can", "need", "want", "help",
    "information", "the", "is", "are", "this", "that", "here", "there", "now", "later"
  >>

\* main.py 219-249: the keys of keyword_map in insertion (iteration) order
keyword_map_keys ==
  <<
    "WHAT_IS_REALTYPLUS", "COUNTRIES_OPERATING_IN", "FRANCHISE_INCLUSIONS",
    "FRANCHISE_VS_MASTER", "REAL_ESTATE_EXPERIENCE_REQ", "START_ALONE_OR_TEAM",
    "ONBOARDING_LAUNCH_TIME", "SUPPORT_RECEIVED", "OPERATE_INTERNATIONALLY",
    "STEPS_TO_GET_STARTED", "AREA_EXCLUSIVITY", "MARKETING_ASSISTANCE",
    "RECRUITMENT_ASSISTANCE", "TECHNOLOGY_TOOLS_OFFERED", "CONTACT_EXPANSION_TEAM",
    "WHERE_CAN_I_OPEN", "WHY_CHOOSE_REALTYPLUS", "RECEIVE_DOCUMENTS_BROCHURE",
    "TIME_DEDICATION_REQUIRED", "PHYSICAL_OFFICE_NEED", "TRAINING_FOR_TEAM",
    "EXPAND_TO_MULTIPLE_CITIES", "VISIT_HEADQUARTERS", "GROW_BEYOND_SALES",
    "MULTIPLE_LANGUAGES_REQ", "MAIN_REQUIREMENTS_JOIN", "CONTACT_OTHER_FRANCHISEES",
    "HOW_INTERNATIONAL_SYSTEM_WORKS", "GROW_QUICKLY_POSSIBLE"
  >>

\* main.py 219-249
keyword_map ==
  [
    WHAT_IS_REALTYPLUS |-> << "qu^% es", "what is", "informaci^#n", "empresa", "company", "realtyplus" >>,
    COUNTRIES_OPERATING_IN |-> << "pa^$ses", "countries", "d^#nde", "where", "ubicaci^#n", "location", "operan" >>,
    FRANCHISE_INCLUSIONS |-> << "incluye", "included", "qu^% recibo", "what do i get", "beneficios", "benefits" >>,
    FRANCHISE_VS_MASTER |-> << "diferencia", "difference", "master", "franquicia vs" >>,
    REAL_ESTATE_EXPERIENCE_REQ |-> << "experiencia", "experience", "necesito", "requisitos" >>,
    START_ALONE_OR_TEAM |-> << "solo", "alone", "equipo", "team" >>,
    ONBOARDING_LAUNCH_TIME |-> << "cu^!nto tiempo", "how long", "tiempo", "launch", "empezar" >>,
    SUPPORT_RECEIVED |-> << "apoyo", "support", "ayuda", "help" >>,
    OPERATE_INTERNATIONALLY |-> << "internacional", "international", "global" >>,
    STEPS_TO_GET_STARTED |-> << "c^#mo empezar", "how to start", "pasos", "steps", "comenzar" >>,
    AREA_EXCLUSIVITY |-> << "exclusividad", "exclusivity", "territorio", "territory" >>,
    MARKETING_ASSISTANCE |-> << "marketing", "publicidad", "advertising" >>,
    RECRUITMENT_ASSISTANCE |-> << "reclutar", "recruitment", "contratar", "hiring" >>,
    TECHNOLOGY_TOOLS_OFFERED |-> << "tecnolog^$a", "technology", "herramientas", "tools", "plataforma" >>,
    CONTACT_EXPANSION_TEAM |-> << "contactar", "contact", "hablar", "llamada", "call", "reuni^#n" >>,
    WHERE_CAN_I_OPEN |-> << "d^#nde puedo", "where can", "abrir", "open" >>,
    WHY_CHOOSE_REALTYPLUS |-> << "por qu^%", "why", "elegir", "choose", "ventajas" >>,
    RECEIVE_DOCUMENTS_BROCHURE |-> << "documentos", "documents", "folleto", "brochure" >>,
    TIME_DEDICATION_REQUIRED |-> << "dedicaci^#n", "dedication", "tiempo dedicar" >>,
    PHYSICAL_OFFICE_NEED |-> << "oficina", "office", "f^$sica", "physical" >>,
    TRAINING_FOR_TEAM |-> << "capacitaci^#n", "training", "entrenamiento", "formaci^#n" >>,
    EXPAND_TO_MULTIPLE_CITIES |-> << "expandir", "expand", "ciudades", "cities" >>,
    VISIT_HEADQUARTERS |-> << "visitar", "visit", "oficinas", "headquarters" >>,
    GROW_BEYOND_SALES |-> << "crecer", "grow", "m^!s all^!", "beyond" >>,
    MULTIPLE_LANGUAGES_REQ |-> << "idiomas", "languages" >>,
    MAIN_REQUIREMENTS_JOIN |-> << "requisitos", "requirements", "unirme", "join" >>,
    CONTACT_OTHER_FRANCHISEES |-> << "franquiciados", "franchisees", "testimonios" >>,
    HOW_INTERNATIONAL_SYSTEM_WORKS |-> << "sistema", "system", "funciona", "works" >>,
    GROW_QUICKLY_POSSIBLE |-> << "r^!pido", "quickly", "r^!pidamente" >>
  ]

\* main.py 264-294
names_en ==
  [
    WHAT_IS_REALTYPLUS |-> "What is RealtyPlus?",
    COUNTRIES_OPERATING_IN |-> "What countries do you operate in?",
    FRANCHISE_INCLUSIONS |-> "What does the franchise include?",
    FRANCHISE_VS_MASTER |-> "Difference between franchise and master franchise",
    REAL_ESTATE_EXPERIENCE_REQ |-> "Real estate experience required",
    START_ALONE_OR_TEAM |-> "Can I start alone or do I need a team?",
    ONBOARDING_LAUNCH_TIME |-> "Time to get started",
    SUPPORT_RECEIVED |-> "Support I will receive",
    OPERATE_INTERNATIONALLY |-> "International operations",
    STEPS_TO_GET_STARTED |-> "Steps to get started",
    AREA_EXCLUSIVITY |-> "Area exclusivity",
    MARKETING_ASSISTANCE |-> "Marketing assistance",
    RECRUITMENT_ASSISTANCE |-> "Recruitment assistance",
    TECHNOLOGY_TOOLS_OFFERED |-> "Technology tools offered",
    CONTACT_EXPANSION_TEAM |-> "Contact the expansion team",
    WHERE_CAN_I_OPEN |-> "Where can I open?",
    WHY_CHOOSE_REALTYPLUS |-> "Why choose RealtyPlus?",
    RECEIVE_DOCUMENTS_BROCHURE |-> "Receive documents/brochure",
    TIME_DEDICATION_REQUIRED |-> "Time dedication required",
    PHYSICAL_OFFICE_NEED |-> "Physical office requirement",
    TRAINING_FOR_TEAM |-> "Training for the team",
    EXPAND_TO_MULTIPLE_CITIES |-> "Expand to multiple cities",
    VISIT_HEADQUARTERS |-> "Visit headquarters",
    GROW_BEYOND_SALES |-> "Grow beyond sales",
    MULTIPLE_LANGUAGES_REQ |-> "Multiple languages requirement",
    MAIN_REQUIREMENTS_JOIN |-> "Main requirements to join",
    CONTACT_OTHER_FRANCHISEES |-> "Contact other franchisees",
    HOW_INTERNATIONAL_SYSTEM_WORKS |-> "How the international system works",
    GROW_QUICKLY_POSSIBLE |-> "Possibility of growing quickly"
  ]

\* main.py 296-326
names_es ==
  [
    WHAT_IS_REALTYPLUS |-> "{&Qu^% es RealtyPlus?",
    COUNTRIES_OPERATING_IN |-> "{&En qu^% pa^$ses operan?",
    FRANCHISE_INCLUSIONS |-> "{&Qu^% incluye la franquicia?",
    FRANCHISE_VS_MASTER |-> "Diferencia entre franquicia y master franquicia",
    REAL_ESTATE_EXPERIENCE_REQ |-> "Experiencia en bienes ra^$ces requerida",
    START_ALONE_OR_TEAM |-> "{&Puedo empezar solo o necesito un equipo?",
    ONBOARDING_LAUNCH_TIME |-> "Tiempo para empezar",
    SUPPORT_RECEIVED |-> "Apoyo que recibir^%",
    OPERATE_INTERNATIONALLY |-> "Operaciones internacionales",
    STEPS_TO_GET_STARTED |-> "Pasos para comenzar",
    AREA_EXCLUSIVITY |-> "Exclusividad territorial",
    MARKETING_ASSISTANCE |-> "Ayuda de marketing",
    RECRUITMENT_ASSISTANCE |-> "Ayuda de reclutamiento",
    TECHNOLOGY_TOOLS_OFFERED |-> "Herramientas tecnol^#gicas ofrecidas",
    CONTACT_EXPANSION_TEAM |-> "Contactar al equipo de expansi^#n",
    WHERE_CAN_I_OPEN |-> "{&D^#nde puedo abrir?",
    WHY_CHOOSE_REALTYPLUS |-> "{&Por qu^% elegir RealtyPlus?",
    RECEIVE_DOCUMENTS_BROCHURE |-> "Recibir documentos/folleto",
    TIME_DEDICATION_REQUIRED |-> "Tiempo de dedicaci^#n requerido",
    PHYSICAL_OFFICE_NEED |-> "Requisito de oficina f^$sica",
    TRAINING_FOR_TEAM |-> "Capacitaci^#n para el equipo",
    EXPAND_TO_MULTIPLE_CITIES |-> "Expandir a m^=ltiples ciudades",
    VISIT_HEADQUARTERS |-> "Visitar la sede",
    GROW_BEYOND_SALES |-> "Crecer m^!s all^! de las ventas",
    MULTIPLE_LANGUAGES_REQ |-> "Requisito de m^=ltiples idiomas",
    MAIN_REQUIREMENTS_JOIN |-> "Requisitos principales para unirse",
    CONTACT_OTHER_FRANCHISEES |-> "Contactar a otros franquiciados",
    HOW_INTERNATIONAL_SYSTEM_WORKS |-> "C^#mo funciona el sistema internacional",
    GROW_QUICKLY_POSSIBLE |-> "Posibilidad de crecer r^!pidamente"
  ]
-----------------------------------------------------------------------------
(* The pure functions of the source *)

\* sum(1 for x in items if x in text_lower)
CountIn(items, text_lower) ==
  Cardinality({i \in 1..Len(items) : Contains(text_lower, items[i])})

\* a detector that answers Spanish when the two counts are equal
ties_are_spanish(text) ==
  LET text_lower == lower(text)
      spanish_count == CountIn(spanish_indicators, text_lower)
      english_count == CountIn(english_indicators, text_lower)
  IN  IF spanish_count >= english_count THEN "es" ELSE "en"

detect_language(text) ==
  LET text_lower == lower(text)
      spanish_count == CountIn(spanish_indicators, text_lower)
      english_count == CountIn(english_indicators, text_lower)
  IN  IF spanish_count > english_count THEN "es"
      ELSE IF english_count > 0 THEN "en"
      ELSE "en"

\* What a generate_content call comes to: a response whose .text is readable, or an
\* exception (raised by the call, or by .text on a response that carries no text).
Returned(text) == [kind |-> "text", text |-> text]
Raised == [kind |-> "error", text |-> ""]

\* translate_response reaches generate_content
translate_calls(target_language, api_key) == target_language # "en" /\ api_key

\* a translator that has nothing to return when the call raises
failure_returns_nothing(response_text, target_language, api_key, outcome) ==
  IF target_language = "en" THEN response_text
  ELSE IF ~api_key THEN response_text
  ELSE IF outcome.kind = "text" THEN strip(outcome.text)
  ELSE ""

translate_response(response_text, target_language, api_key, outcome) ==
  IF target_language = "en" THEN response_text
  ELSE IF ~api_key THEN response_text
  ELSE IF outcome.kind = "text" THEN strip(outcome.text)
  ELSE response_text

CATEGORIES == DOMAIN RESPONSES

\* the except branch of get_category_from_ai
fallback_category(user_question) ==
  LET user_question_lower == lower(user_question)
  IN  IF Contains(user_question_lower, "qu^% es") \/ Contains(user_question_lower, "what is")
        THEN "WHAT_IS_REALTYPLUS"
      ELSE IF Contains(user_question_lower, "pa^$ses") \/ Contains(user_question_lower, "countries")
        THEN "COUNTRIES_OPERATING_IN"
      ELSE IF Contains(user_question_lower, "incluye") \/ Contains(user_question_lower, "included")
        THEN "FRANCHISE_INCLUSIONS"
      ELSE IF Contains(user_question_lower, "empezar") \/ Contains(user_question_lower, "started")
        THEN "STEPS_TO_GET_STARTED"
      ELSE IF Contains(user_question_lower, "contactar") \/ Contains(user_question_lower, "contact")
        THEN "CONTACT_EXPANSION_TEAM"
      ELSE "OTHER"

\* get_category_from_ai reaches generate_content
classify_calls(api_key) == api_key

get_category_from_ai(user_question, api_key, outcome) ==
  IF ~api_key THEN "OTHER"
  ELSE IF outcome.kind = "text"
    THEN LET classified_category == upper(strip(outcome.text))
         IN  IF classified_category \in CATEGORIES THEN classified_category ELSE "OTHER"
  ELSE fallback_category(user_question)

\* a descending sort that puts a later match ahead of the earlier matches of equal score
RECURSIVE sort_reversing_ties(_)
sort_reversing_ties(matches) ==
  IF matches = <<>> THEN <<>>
  ELSE LET last == matches[Len(matches)]
           rest == sort_reversing_ties(SubSeq(matches, 1, Len(matches) - 1))
           ahead == Cardinality({i \in 1..Len(rest) : rest[i][2] > last[2]})
       IN  SubSeq(rest, 1, ahead) \o <<last>> \o SubSeq(rest, ahead + 1, Len(rest))

\* matches.sort(key=lambda x: x[1], reverse=True): a stable sort, so equal scores
\* keep the order they were appended in
RECURSIVE SortByScoreDescending(_)
SortByScoreDescending(matches) ==
  IF matches = <<>> THEN <<>>
  ELSE LET last == matches[Len(matches)]
           rest == SortByScoreDescending(SubSeq(matches, 1, Len(matches) - 1))
           ahead == Cardinality({i \in 1..Len(rest) : rest[i][2] >= last[2]})
       IN  SubSeq(rest, 1, ahead) \o <<last>> \o SubSeq(rest, ahead + 1, Len(rest))

keyword_score(category, user_question_lower) ==
  CountIn(keyword_map[category], user_question_lower)

\* a ranker that cuts the matches to top_n before it sorts them
truncate_before_sort(user_question, top_n) ==
  LET user_question_lower == lower(user_question)
      scored == [i \in 1..Len(keyword_map_keys) |->
                   <<keyword_map_keys[i], keyword_score(keyword_map_keys[i], user_question_lower)>>]
      matches == SelectSeq(scored, LAMBDA m : m[2] > 0)
      top == SubSeq(matches, 1, IF Len(matches) < top_n THEN Len(matches) ELSE top_n)
      sorted == SortByScoreDescending(top)
  IN  [i \in 1..Len(sorted) |-> sorted[i][1]]

\* a ranker that returns every match
all_matches(user_question, top_n) ==
  LET user_question_lower == lower(user_question)
      scored == [i \in 1..Len(keyword_map_keys) |->
                   <<keyword_map_keys[i], keyword_score(keyword_map_keys[i], user_question_lower)>>]
      matches == SelectSeq(scored, LAMBDA m : m[2] > 0)
      sorted == SortByScoreDescending(matches)
  IN  [i \in 1..Len(sorted) |-> sorted[i][1]]

find_similar_categories(user_question, top_n) ==
  LET user_question_lower == lower(user_question)
      scored == [i \in 1..Len(keyword_map_keys) |->
                   <<keyword_map_keys[i], keyword_score(keyword_map_keys[i], user_question_lower)>>]
      matches == SelectSeq(scored, LAMBDA m : m[2] > 0)
      sorted == SortByScoreDescending(matches)
      top == SubSeq(sorted, 1, IF Len(sorted) < top_n THEN Len(sorted) ELSE top_n)
  IN  [i \in 1..Len(top) |-> top[i][1]]

get_category_display_name(category, language) ==
  IF language = "es"
    THEN IF category \in DOMAIN names_es THEN names_es[category] ELSE category
  ELSE IF category \in DOMAIN names_en THEN names_en[category] ELSE category

-----------------------------------------------------------------------------
(* The texts handle_message and start send *)

\* the welcome text of start, abridged: nothing reads it
welcome_text == "Hello! I'm your RealtyPlus assistant. [...] What would you like to know?"

follow_up(language) ==
  IF language = "es" THEN "\n{&Tienes otra pregunta? Preg^=ntame lo que quieras."
  ELSE "\nDo you have another question? Feel free to ask me anything."

error_msg(language) ==
  IF language = "es" THEN "Por favor selecciona un n^=mero v^!lido de la lista."
  ELSE "Please select a valid number from the list."

default_response(language) ==
  IF language = "es"
    THEN "Lo siento, no tengo una respuesta espec^$fica para esa pregunta. Por favor contacta a nuestro equipo de expansi^#n para m^!s informaci^#n, o intenta reformular tu pregunta."
  ELSE "I'm sorry, I don't have a specific answer for that question. Please contact our expansion team for more information, or try rephrasing your question."

RECURSIVE NumberedList(_, _, _)
NumberedList(similar, idx, language) ==
  IF idx > Len(similar) THEN ""
  ELSE str(idx) \o ". " \o get_category_display_name(similar[idx], language) \o "\n"
         \o NumberedList(similar, idx + 1, language)

suggestion_text(similar, language) ==
  (IF language = "es"
     THEN "No estoy seguro de haber entendido tu pregunta. {&Te refieres a alguna de estas opciones?\n\n"
   ELSE "I'm not sure I understood your question. Did you mean one of these options?\n\n")
  \o NumberedList(similar, 1, language)
  \o (IF language = "es"
        THEN "\nEscribe el n^=mero de la opci^#n que te interesa, o reformula tu pregunta."
      ELSE "\nType the number of the option you're interested in, or rephrase your question.")

-----------------------------------------------------------------------------
(* The inputs the model draws from *)

Users == {"u1", "u2"}

\* the largest number a user answers a suggestion list with
MaxChoice == 4

NumericTexts == {str(k) : k \in 0..MaxChoice} \cup {"-1", " 2 "}

QuestionTexts ==
  { "What is the marketing and advertising support for my team?",
    "hola, necesito ayuda",
    "2.5" }

Messages == QuestionTexts \cup NumericTexts

\* what Gemini answers a classification prompt with
AIResponses == {"OTHER", " steps_to_get_started\n", "WHAT_IS_REALTYPLUS", "I am not sure."}

\* what Gemini answers a translation prompt with
Translation(response_text) == " [es] " \o response_text \o "\n"

\* data.json is not part of the sources; its canned answers are stood for by
CannedResponse(category) == "<" \o category \o ">"

top_n == 3

KeywordCategories == {keyword_map_keys[i] : i \in 1..Len(keyword_map_keys)}

\* data.json missing (FileNotFoundError), holding every category of the tables, or
\* holding some of them and one category the tables do not know
Catalogs ==
  { [c \in {} |-> ""],
    [c \in KeywordCategories |-> CannedResponse(c)],
    [c \in {"STEPS_TO_GET_STARTED", "MARKETING_ASSISTANCE", "PRICING"} |-> CannedResponse(c)] }

\* The pure functions on the inputs above, evaluated once: the handler reads these
\* values where the source calls the functions.
language_of == [t \in Messages |-> detect_language(t)]
int_of == [t \in Messages |-> int(t)]
similar_of == [t \in Messages |-> find_similar_categories(t, top_n)]

-----------------------------------------------------------------------------
(* The state machine *)

NotBlocked == [call |-> "none", response_text |-> ""]
NoCall == [kind |-> "none", text |-> ""]
NotApplied == [function |-> "none", text |-> "", top_n |-> 0, outcome |-> NoCall, result |-> ""]

NoTurn ==
  [handler |-> "none", user |-> "", text |-> "", before |-> NoKeys, language |-> "",
   detected |-> FALSE, path |-> "none", classified |-> FALSE, ranked |-> FALSE,
   category |-> "", replies |-> <<>>, done |-> TRUE]

Init ==
  /\ RESPONSES \in Catalogs
  /\ GEMINI_API_KEY \in BOOLEAN
  /\ user_data = [u \in Users |-> NoKeys]
  /\ blocked = NotBlocked
  /\ turn = NoTurn
  /\ applied = NotApplied

\* the handler returns: the event loop is free for the next update
Finish(u, ud, log) ==
  /\ user_data' = [user_data EXCEPT ![u] = ud]
  /\ turn' = [log EXCEPT !.done = TRUE]
  /\ blocked' = NotBlocked
  /\ UNCHANGED <<RESPONSES, GEMINI_API_KEY, applied>>

\* the handler enters model.generate_content(...), a synchronous call made on the
\* event loop's thread
Block(u, ud, log, call, response_text) ==
  /\ user_data' = [user_data EXCEPT ![u] = ud]
  /\ turn' = log
  /\ blocked' = [call |-> call, response_text |-> response_text]
  /\ UNCHANGED <<RESPONSES, GEMINI_API_KEY, applied>>

\* response_text = await translate_response(...); reply_text(response_text);
\* reply_text(follow_up)
Reply(u, ud, log, response_text, outcome) ==
  Finish(u, ud,
         [log EXCEPT !.replies =
            << translate_response(response_text, log.language, GEMINI_API_KEY, outcome),
               follow_up(log.language) >>])

Respond(u, ud, log, response_text) ==
  IF translate_calls(log.language, GEMINI_API_KEY)
    THEN Block(u, ud, log, "translate", response_text)
  ELSE Reply(u, ud, log, response_text, NoCall)

\* handle_message from "if category in RESPONSES" on
AfterClassification(u, ud, log0, category) ==
  LET log == [log0 EXCEPT !.category = category]
  IN  IF category \in DOMAIN RESPONSES
        THEN Respond(u, ud, log, RESPONSES[category])
      ELSE LET similar == similar_of[log.text]
           IN  IF Len(similar) > 0
                 THEN Finish(u,
                        Put(Put(Put(ud, "awaiting_confirmation", TRUE),
                                "suggested_categories", similar),
                            "user_language", log.language),
                        [log EXCEPT !.ranked = TRUE,
                                    !.replies = <<suggestion_text(similar, log.language)>>])
               ELSE Finish(u, ud,
                        [log EXCEPT !.ranked = TRUE,
                                    !.replies = <<default_response(log.language)>>])

\* handle_message from "context.user_data['user_language'] = language" to the
\* classification
Classify(u, ud0, log0) ==
  LET ud == Put(ud0, "user_language", log0.language)
      log == [log0 EXCEPT !.path = "classify", !.classified = TRUE]
  IN  IF classify_calls(GEMINI_API_KEY)
        THEN Block(u, ud, log, "classify", "")
      ELSE AfterClassification(u, ud, log,
                               get_category_from_ai(log.text, GEMINI_API_KEY, NoCall))

\* mutation of in_range: the lower end of the range is taken as 0
in_range_from_zero(choice, suggested) == 0 <= choice /\ choice <= Len(suggested)

\* 1 <= choice <= len(suggested)
in_range(choice, suggested) == 1 <= choice /\ choice <= Len(suggested)

\* mutation of selected_category: the choice counts from the end of the list
selected_category_from_end(suggested, choice) == item(suggested, 0 - choice)

\* suggested[choice - 1]
selected_category(suggested, choice) == item(suggested, choice - 1)

\* mutation of treat_as_new_question: the flag is left as it is
keep_awaiting(ud) == ud

\* except ValueError: context.user_data['awaiting_confirmation'] = False
treat_as_new_question(ud) == Put(ud, "awaiting_confirmation", FALSE)

\* mutation of turn_language: the language is detected on every message
turn_language_redetected(ud, user_text) ==
  [language |-> language_of[user_text], detected |-> TRUE]

\* the language of the turn, and whether detect_language ran for it
turn_language(ud, user_text) ==
  IF Has(ud, "user_language")
    THEN [language |-> ud["user_language"], detected |-> FALSE]
  ELSE [language |-> language_of[user_text], detected |-> TRUE]

\* a test that takes any stored suggestion list for a pending selection
has_stored_suggestions(ud) == Len(Get(ud, "suggested_categories", <<>>)) > 0

\* if context.user_data.get('awaiting_confirmation')
responding_to_suggestion(ud) == Get(ud, "awaiting_confirmation", FALSE)

\* the dispatcher hands a text update of user u to handle_message
handle_message(u, user_text) ==
  /\ blocked.call = "none"
  /\ LET before == user_data[u]
         lang == turn_language(before, user_text)
         language == lang.language
         ud1 == IF lang.detected THEN Put(before, "user_language", language) ELSE before
         log == [NoTurn EXCEPT !.handler = "handle_message", !.user = u,
                               !.text = user_text, !.before = before,
                               !.language = language, !.detected = lang.detected,
                               !.done = FALSE]
     IN  IF responding_to_suggestion(ud1)
           THEN LET choice == int_of[user_text]
                    suggested == Get(ud1, "suggested_categories", <<>>)
                IN  IF choice.ok
                      THEN IF in_range(choice.value, suggested)
                             THEN LET category == selected_category(suggested, choice.value)
                                      ud2 == Put(ud1, "awaiting_confirmation", FALSE)
                                      log2 == [log EXCEPT !.path = "select",
                                                          !.category = category]
                                  IN  IF category \in DOMAIN RESPONSES
                                        THEN Respond(u, ud2, log2, RESPONSES[category])
                                      ELSE Finish(u, ud2, log2)
                           ELSE Finish(u, ud1,
                                  [log EXCEPT !.path = "invalid",
                                              !.replies = <<error_msg(language)>>])
                    ELSE Classify(u, treat_as_new_question(ud1), log)
         ELSE Classify(u, ud1, log)

\* generate_content returns inside get_category_from_ai
ClassificationReturns(text) ==
  /\ blocked.call = "classify"
  /\ AfterClassification(turn.user, user_data[turn.user], turn,
                         get_category_from_ai(turn.text, GEMINI_API_KEY, Returned(text)))

\* generate_content (or response.text) raises inside get_category_from_ai
ClassificationRaises ==
  /\ blocked.call = "classify"
  /\ AfterClassification(turn.user, user_data[turn.user], turn,
                         get_category_from_ai(turn.text, GEMINI_API_KEY, Raised))

\* generate_content returns inside translate_response
TranslationReturns ==
  /\ blocked.call = "translate"
  /\ Reply(turn.user, user_data[turn.user], turn, blocked.response_text,
           Returned(Translation(blocked.response_text)))

\* generate_content (or response.text) raises inside translate_response
TranslationRaises ==
  /\ blocked.call = "translate"
  /\ Reply(turn.user, user_data[turn.user], turn, blocked.response_text, Raised)

\* the dispatcher hands a /start command of user u to start
start(u) ==
  /\ blocked.call = "none"
  /\ turn' = [NoTurn EXCEPT !.handler = "start", !.user = u, !.before = user_data[u],
                            !.replies = <<welcome_text>>]
  /\ UNCHANGED <<RESPONSES, GEMINI_API_KEY, user_data, blocked, applied>>

Next ==
  \/ \E u \in Users : \E user_text \in Messages : handle_message(u, user_text)
  \/ \E text \in AIResponses : ClassificationReturns(text)
  \/ ClassificationRaises
  \/ TranslationReturns
  \/ TranslationRaises
  \/ \E u \in Users : start(u)

Spec == Init /\ [][Next]_vars

TypeOK ==
  /\ blocked.call \in {"none", "classify", "translate"}
  /\ turn.done = (blocked.call = "none")
  /\ \A u \in Users : DOMAIN user_data[u] \subseteq
        {"user_language", "awaiting_confirmation", "suggested_categories"}

-----------------------------------------------------------------------------
(* The functions applied on their own, to texts the dispatcher could deliver *)

\* the longest text, in phrases
MaxWords == 2

\* phrases a user may combine; between them they hit the language indicators, the
\* fallback rules and the keyword table
Words ==
  {"What is", "countries", "included", "started", "contactar", "requisitos",
   "oficinas", "hola"}

RECURSIVE Join(_)
Join(words) ==
  IF Len(words) = 0 THEN ""
  ELSE IF Len(words) = 1 THEN words[1]
  ELSE words[1] \o " " \o Join(Tail(words))

Texts == {Join(words) : words \in UNION {[1..n -> Words] : n \in 0..MaxWords}}

FunctionOutcomes ==
  IF GEMINI_API_KEY THEN {Raised} \cup {Returned(text) : text \in AIResponses}
  ELSE {NoCall}

\* a text has arrived and no function has been applied to it yet
InitFunctions ==
  /\ RESPONSES \in Catalogs
  /\ GEMINI_API_KEY \in BOOLEAN
  /\ user_data = [u \in Users |-> NoKeys]
  /\ blocked = NotBlocked
  /\ turn = NoTurn
  /\ \E text \in Texts : applied = [NotApplied EXCEPT !.text = text]

Apply(function, n, outcome, result) ==
  /\ applied.function = "none"
  /\ applied' = [applied EXCEPT !.function = function, !.top_n = n,
                                !.outcome = outcome, !.result = result]
  /\ UNCHANGED <<RESPONSES, GEMINI_API_KEY, user_data, blocked, turn>>

apply_detect_language ==
  Apply("detect_language", 0, NoCall, detect_language(applied.text))

apply_find_similar_categories(n) ==
  Apply("find_similar_categories", n, NoCall, find_similar_categories(applied.text, n))

apply_get_category_from_ai(outcome) ==
  Apply("get_category_from_ai", 0, outcome,
        get_category_from_ai(applied.text, GEMINI_API_KEY, outcome))

NextFunctions ==
  \/ apply_detect_language
  \/ \E n \in 1..top_n : apply_find_similar_categories(n)
  \/ \E outcome \in FunctionOutcomes : apply_get_category_from_ai(outcome)

SpecFunctions == InitFunctions /\ [][NextFunctions]_vars

-----------------------------------------------------------------------------
(* The session as the specification names it *)

awaitingConfirmation(ud) == Get(ud, "awaiting_confirmation", FALSE)
pendingSuggestions(ud) == Get(ud, "suggested_categories", <<>>)

\* the turn is a text message handled by handle_message
IsMessage == turn.handler = "handle_message"

\* the turn's message reached a session in AwaitingSelection
InAwaitingSelection == IsMessage /\ awaitingConfirmation(turn.before)

\* the session of the turn, as it is now
Session == user_data[turn.user]

\* the turn's message parses as an integer into (or outside) the stored list
ParsesInRange ==
  /\ int_of[turn.text].ok
  /\ 1 <= int_of[turn.text].value
  /\ int_of[turn.text].value <= Len(pendingSuggestions(turn.before))

ParsesOutOfRange ==
  /\ int_of[turn.text].ok
  /\ \/ int_of[turn.text].value < 1
     \/ int_of[turn.text].value > Len(pendingSuggestions(turn.before))

-----------------------------------------------------------------------------
(* C1: in AwaitingSelection with N suggestions, a message that parses as an
   integer k, 1 <= k <= N, leaves the session Idle, and the category resolved
   for the reply is the k-th suggestion as stored before the message. *)
C1_SelectionResolvesKth ==
  (InAwaitingSelection /\ ParsesInRange) =>
     /\ turn.path = "select"
     /\ ~awaitingConfirmation(Session)
     /\ turn.category = pendingSuggestions(turn.before)[int_of[turn.text].value]

\* the second of three suggestions was picked, and the turn is over
C1_Witness ==
  /\ InAwaitingSelection /\ ParsesInRange /\ turn.done
  /\ Len(pendingSuggestions(turn.before)) = 3
  /\ int_of[turn.text].value = 2
  /\ turn.category = "WHAT_IS_REALTYPLUS"

(* C2: in every reachable state of every session, pendingSuggestions is
   non-empty if and only if awaitingConfirmation is true. *)
C2_SuggestionsIffAwaiting ==
  \A u \in Users :
     (Len(pendingSuggestions(user_data[u])) > 0) <=> awaitingConfirmation(user_data[u])

(* C3: after an in-range numeric selection in AwaitingSelection both
   awaitingConfirmation and pendingSuggestions are cleared. *)
C3_SelectionClearsBoth ==
  (InAwaitingSelection /\ ParsesInRange /\ turn.done) =>
     /\ ~awaitingConfirmation(Session)
     /\ pendingSuggestions(Session) = <<>>

(* C4: in AwaitingSelection with N suggestions, a message that parses as an
   integer outside 1..N (0 and the negative integers included) leaves the session
   in AwaitingSelection with pendingSuggestions and the language unchanged, is
   answered by the localized invalid-selection message alone, and runs neither
   the classifier nor the ranker. *)
C4_OutOfRangeKeepsSession ==
  (InAwaitingSelection /\ ParsesOutOfRange) =>
     /\ turn.done
     /\ Session = turn.before
     /\ awaitingConfirmation(Session)
     /\ turn.language = turn.before["user_language"]
     /\ turn.replies = <<error_msg(turn.language)>>
     /\ ~turn.classified /\ ~turn.ranked /\ ~turn.detected

\* 0 was answered to a list of three in a Spanish session
C4_Witness ==
  /\ InAwaitingSelection /\ ParsesOutOfRange /\ turn.done
  /\ int_of[turn.text].value = 0
  /\ Len(pendingSuggestions(turn.before)) = 3
  /\ turn.replies = <<"Por favor selecciona un n^=mero v^!lido de la lista.">>

(* C5: in AwaitingSelection a message that does not parse as an integer clears
   awaitingConfirmation and is then processed as an Idle session with the same
   language processes that text: the flag is clear when classification starts,
   and the reply and the resulting session are those of the Idle logic (a new
   suggestion list and AwaitingSelection again if the classifier misses and the
   ranker finds suggestions). *)

\* what the classification of the turn's text leaves of session `idle`, and the reply
IdleOutcome(idle) ==
  IF turn.category \in DOMAIN RESPONSES
    THEN /\ Session = idle
         /\ Len(turn.replies) = 2
         /\ turn.replies[1] \in {RESPONSES[turn.category],
                                 strip(Translation(RESPONSES[turn.category]))}
         /\ turn.language = "en" => turn.replies[1] = RESPONSES[turn.category]
         /\ turn.replies[2] = follow_up(turn.language)
  ELSE IF Len(similar_of[turn.text]) > 0
    THEN /\ Session = Put(Put(idle, "awaiting_confirmation", TRUE),
                          "suggested_categories", similar_of[turn.text])
         /\ turn.replies = <<suggestion_text(similar_of[turn.text], turn.language)>>
  ELSE /\ Session = idle
       /\ turn.replies = <<default_response(turn.language)>>

\* the categories classification can come to for the turn's text
Classifications == CATEGORIES \cup {"OTHER", fallback_category(turn.text)}

\* the session of the turn as it was, in Idle and with the turn's language
IdleBefore == Put(turn.before, "user_language", turn.language)
ClearedBefore == Put(turn.before, "awaiting_confirmation", FALSE)

C5_NonNumericIsFreshQuestion ==
  /\ (IsMessage /\ ~awaitingConfirmation(turn.before)) =>
        /\ turn.path = "classify"
        /\ turn.category # "" => turn.category \in Classifications
        /\ turn.done => IdleOutcome(IdleBefore)
  /\ (InAwaitingSelection /\ ~int_of[turn.text].ok) =>
        /\ turn.path = "classify"
        /\ turn.language = turn.before["user_language"]
        /\ blocked.call = "classify" => Session = ClearedBefore
        /\ turn.category # "" => turn.category \in Classifications
        /\ turn.done => IdleOutcome(ClearedBefore)

\* a rephrased question replaced the list of three by a list of two
C5_Witness ==
  /\ InAwaitingSelection /\ ~int_of[turn.text].ok /\ turn.done
  /\ Len(pendingSuggestions(turn.before)) = 3
  /\ awaitingConfirmation(Session)
  /\ Len(pendingSuggestions(Session)) = 2

(* C6: get_category_from_ai returns a member of the loaded catalog or OTHER, for
   every text and every catalog, whether the AI capability answers, raises an
   error (the fallback rules) or has no credential. *)
C6_ClassifiedInCatalogOrOther ==
  (IsMessage /\ turn.path = "classify" /\ turn.category # "") =>
     turn.category \in CATEGORIES \cup {"OTHER"}

(* C7: every category the ranker reports, and so every element of a session's
   pendingSuggestions, is a member of the loaded catalog, whatever the catalog. *)
C7_SuggestionsInCatalog ==
  \A u \in Users :
     \A i \in 1..Len(pendingSuggestions(user_data[u])) :
        pendingSuggestions(user_data[u])[i] \in CATEGORIES

(* C8: started with an empty catalog, every message is answered by the localized
   default unmatched-question message and the session stays Idle: no suggestion
   list is offered and AwaitingSelection is never entered. *)
C8_EmptyCatalogAlwaysDefault ==
  (CATEGORIES = {}) =>
     /\ \A u \in Users : ~awaitingConfirmation(user_data[u])
     /\ (IsMessage /\ turn.done) => turn.replies = <<default_response(turn.language)>>

(* C9: an external AI call pending for one session never blocks another
   session's turn: while the handler of session a waits on the call, a message
   of a different session b can be taken up by its handler. *)
C9_PendingCallBlocksNoOtherSession ==
  \A a, b \in Users :
     (a # b /\ blocked.call # "none" /\ turn.user = a) =>
        ENABLED (\E user_text \in Messages : handle_message(b, user_text))

(* C10: a session's language is set once, by detect_language on the session's
   first message, and never changes: on every later message the detector is not
   run, and the stored language, one of en and es, is the language of the turn. *)
C10_LanguageOfTurn ==
  IsMessage =>
     /\ turn.detected = ~Has(turn.before, "user_language")
     /\ turn.detected => turn.language = detect_language(turn.text)
     /\ ~turn.detected => turn.language = turn.before["user_language"]
     /\ turn.language \in {"en", "es"}
     /\ Has(Session, "user_language") /\ Session["user_language"] = turn.language

C10_LanguageSetOnce ==
  /\ []C10_LanguageOfTurn
  /\ [][\A u \in Users :
          Has(user_data[u], "user_language") =>
             /\ Has(user_data'[u], "user_language")
             /\ user_data'[u]["user_language"] = user_data[u]["user_language"]]_vars

\* a Spanish session was sent a text the detector takes for English
C10_Witness ==
  /\ IsMessage /\ turn.done
  /\ Has(turn.before, "user_language")
  /\ turn.before["user_language"] = "es"
  /\ language_of[turn.text] = "en"
  /\ ~int_of[turn.text].ok
  /\ turn.language = "es"

-----------------------------------------------------------------------------
(* The ranker, applied on its own *)

\* the last application is one of find_similar_categories
IsRanking == applied.function = "find_similar_categories"

\* the keyword score of a category for the text the ranker was applied to
ScoreOf(category) == keyword_score(category, lower(applied.text))

\* where the keyword table iterates a category
PositionOf(category) == CHOOSE i \in 1..Len(keyword_map_keys) : keyword_map_keys[i] = category

\* C11: the list the ranker returns is ordered by non-increasing keyword score, and
\* two categories of equal score appear in the order the keyword table iterates them.
C11_RankedByScoreThenOrder ==
  IsRanking =>
    \A i, j \in 1..Len(applied.result) :
      i < j =>
        /\ ScoreOf(applied.result[i]) >= ScoreOf(applied.result[j])
        /\ ScoreOf(applied.result[i]) = ScoreOf(applied.result[j])
             => PositionOf(applied.result[i]) < PositionOf(applied.result[j])

\* a list with a tie, and with a higher score moved ahead of an earlier category
C11_Witness ==
  /\ IsRanking
  /\ \E i, j \in 1..Len(applied.result) :
       i < j /\ ScoreOf(applied.result[i]) = ScoreOf(applied.result[j])
  /\ \E i, j \in 1..Len(applied.result) :
       i < j /\ PositionOf(applied.result[i]) > PositionOf(applied.result[j])

\* the categories of non-zero score
Scoring == {category \in KeywordCategories : ScoreOf(category) > 0}

\* the members of a list
Range(list) == {list[i] : i \in 1..Len(list)}

\* C12: the list the ranker returns holds no category of zero score and no
\* duplicate, is at most top_n long, and leaves out no scoring category while it has
\* room or while an included category scores strictly lower.
C12_TopOfTheScoring ==
  IsRanking =>
    /\ Range(applied.result) \subseteq Scoring
    /\ Cardinality(Range(applied.result)) = Len(applied.result)
    /\ Len(applied.result) <= applied.top_n
    /\ Len(applied.result) =
         IF Cardinality(Scoring) < applied.top_n THEN Cardinality(Scoring)
         ELSE applied.top_n
    /\ \A out \in Scoring \ Range(applied.result) :
         \A in \in Range(applied.result) : ScoreOf(out) <= ScoreOf(in)

\* more categories score than fit, and one left out scores less than one taken
C12_Witness ==
  /\ IsRanking
  /\ Cardinality(Scoring) > applied.top_n
  /\ Len(applied.result) = applied.top_n
  /\ \E out \in Scoring \ Range(applied.result) :
       \E in \in Range(applied.result) : ScoreOf(out) < ScoreOf(in)

-----------------------------------------------------------------------------
(* The language detector, applied on its own *)

\* the last application is one of detect_language
IsDetection == applied.function = "detect_language"

\* how many Spanish, and how many English, indicators occur in the lower-cased text
SpanishCount == CountIn(spanish_indicators, lower(applied.text))
EnglishCount == CountIn(english_indicators, lower(applied.text))

\* C13: detect_language answers for every text, with English or Spanish; it answers
\* Spanish exactly when more Spanish than English indicators occur in the text, so
\* equal counts, zero included, give English.
C13_SpanishIffMore ==
  /\ applied.function = "none" => detect_language(applied.text) \in {"en", "es"}
  /\ IsDetection =>
       /\ applied.result \in {"en", "es"}
       /\ applied.result = "es" <=> SpanishCount > EnglishCount
       /\ SpanishCount = EnglishCount => applied.result = "en"

\* a text with as many Spanish as English indicators, and at least one of each
C13_Witness ==
  /\ IsDetection
  /\ SpanishCount = EnglishCount
  /\ SpanishCount > 0
  /\ applied.result = "en"

-----------------------------------------------------------------------------
(* Translation of the answer *)

\* the turn has ended with the answer of a category of RESPONSES
IsAnswer ==
  /\ IsMessage
  /\ turn.done
  /\ turn.path \in {"select", "classify"}
  /\ turn.category \in DOMAIN RESPONSES

\* the event loop is inside generate_content only for a Spanish turn with a key
C14_CallsOnlyForSpanish ==
  blocked.call = "translate" => turn.language # "en" /\ GEMINI_API_KEY

\* an English turn, or one without a key, is answered with the text of RESPONSES
C14_UntranslatedReply ==
  (IsAnswer /\ (turn.language = "en" \/ ~GEMINI_API_KEY)) =>
     turn.replies = <<RESPONSES[turn.category], follow_up(turn.language)>>

\* when the call raises, the turn ends with the text of RESPONSES and the follow-up
C14_RaiseStillReplies ==
  TranslationRaises =>
    /\ turn'.done
    /\ turn'.replies = <<RESPONSES[turn'.category], follow_up(turn'.language)>>

\* C14: translate_response returns the text of RESPONSES unchanged for an English
\* turn, without calling generate_content; for a Spanish turn it returns the same
\* text when there is no key or the call raises, and the turn still ends with the
\* reply and the follow-up.
C14_TranslationFailsOpen ==
  /\ [](C14_CallsOnlyForSpanish /\ C14_UntranslatedReply)
  /\ [][C14_RaiseStillReplies]_vars

\* a Spanish turn with a key that ended with the untranslated text: the call raised
C14_Witness ==
  /\ IsAnswer
  /\ turn.language = "es"
  /\ GEMINI_API_KEY
  /\ turn.replies = <<RESPONSES[turn.category], follow_up("es")>>

-----------------------------------------------------------------------------
(* The classifier, applied on its own *)

\* the last application is one of get_category_from_ai
IsClassification == applied.function = "get_category_from_ai"

\* the fallback rules in their order: the phrases of a rule and its category
FallbackRules ==
  << <<{"qu^% es", "what is"}, "WHAT_IS_REALTYPLUS">>,
     <<{"pa^$ses", "countries"}, "COUNTRIES_OPERATING_IN">>,
     <<{"incluye", "included"}, "FRANCHISE_INCLUSIONS">>,
     <<{"empezar", "started"}, "STEPS_TO_GET_STARTED">>,
     <<{"contactar", "contact"}, "CONTACT_EXPANSION_TEAM">> >>

\* the category of the first rule one of whose phrases occurs in the lower-cased
\* text, OTHER when no rule has one
FirstRuleCategory(text) ==
  LET hits == {i \in 1..Len(FallbackRules) :
                 \E phrase \in FallbackRules[i][1] : Contains(lower(text), phrase)}
  IN  IF hits = {} THEN "OTHER"
      ELSE FallbackRules[CHOOSE i \in hits : \A j \in hits : i <= j][2]

\* C15: whenever generate_content is not reached because no key is configured, or
\* raises, get_category_from_ai returns the category of the first fallback rule whose
\* phrase occurs in the lower-cased text, and OTHER when no rule matches.
C15_FallbackWhenUnavailable ==
  (IsClassification /\ applied.outcome.kind \in {"none", "error"}) =>
     applied.result = FirstRuleCategory(applied.text)

-----------------------------------------------------------------------------
(* A message in Idle *)

\* the turn's message reached a session in Idle and the handler has returned
IdleTurnDone == IsMessage /\ ~awaitingConfirmation(turn.before) /\ turn.done

\* C16: after a message in Idle, if classification gave a concrete category the
\* session is still Idle with the stored suggestions and the flag as they were; if
\* it gave OTHER the session is in AwaitingSelection exactly when the ranker returned
\* a suggestion, with pendingSuggestions the ranker's list in its order; and when the
\* ranker returned nothing the session is still Idle and the reply is the default
\* unmatched message in the session's language.
C16_IdleTransitions ==
  IdleTurnDone =>
    /\ turn.category # "OTHER" =>
         /\ ~awaitingConfirmation(Session)
         /\ pendingSuggestions(Session) = pendingSuggestions(turn.before)
    /\ turn.category = "OTHER" =>
         /\ awaitingConfirmation(Session) <=> Len(similar_of[turn.text]) > 0
         /\ awaitingConfirmation(Session) =>
              pendingSuggestions(Session) = similar_of[turn.text]
         /\ Len(similar_of[turn.text]) = 0 =>
              /\ ~awaitingConfirmation(Session)
              /\ turn.replies = <<default_response(Session["user_language"])>>

-----------------------------------------------------------------------------
(* Replies *)

\* C17: every message handle_message has handled got at least one reply, whatever
\* the session and RESPONSES; a selection in range got the answer of the selected
\* category followed by the follow-up.
C17_EveryTurnReplies ==
  (IsMessage /\ turn.done) =>
    /\ Len(turn.replies) >= 1
    /\ turn.path = "select" =>
         /\ Len(turn.replies) = 2
         /\ turn.category \in DOMAIN RESPONSES
         /\ turn.replies[1] \in {RESPONSES[turn.category],
                                 strip(Translation(RESPONSES[turn.category]))}
         /\ turn.replies[2] = follow_up(turn.language)

-----------------------------------------------------------------------------
(* Numbers in Idle *)

\* C18: a message is resolved against the stored suggestion list only when it
\* reaches a session in AwaitingSelection; in Idle, a stale list in storage included,
\* a number is a fresh question that goes through classification.
C18_NumbersSelectOnlyWhenAwaiting ==
  IsMessage =>
    /\ turn.path \in {"select", "invalid"} => awaitingConfirmation(turn.before)
    /\ ~awaitingConfirmation(turn.before) =>
         /\ turn.path = "classify"
         /\ turn.classified
         /\ turn.done => turn.category \in Classifications

\* a number within a stale list reached an Idle session and was classified
C18_Witness ==
  /\ IsMessage
  /\ ~awaitingConfirmation(turn.before)
  /\ ParsesInRange
  /\ turn.path = "classify"
  /\ turn.done

-----------------------------------------------------------------------------
(* The stored list in AwaitingSelection *)

\* C19: whenever a session is in AwaitingSelection its pendingSuggestions has
\* between 1 and 3 elements, no two of them equal, and its language is set.
C19_AwaitingHasShortList ==
  \A u \in Users :
    awaitingConfirmation(user_data[u]) =>
      /\ Len(pendingSuggestions(user_data[u])) \in 1..3
      /\ Cardinality(Range(pendingSuggestions(user_data[u])))
           = Len(pendingSuggestions(user_data[u]))
      /\ Has(user_data[u], "user_language")
      /\ user_data[u]["user_language"] \in {"en", "es"}

\* a session in AwaitingSelection whose list is full, cut from more matches
C19_Witness ==
  \E u \in Users :
    /\ awaitingConfirmation(user_data[u])
    /\ Len(pendingSuggestions(user_data[u])) = 3
    /\ IsMessage /\ turn.user = u /\ turn.ranked
    /\ Cardinality({category \in KeywordCategories :
                       keyword_score(category, lower(turn.text)) > 0}) > 3

====
